---- MODULE Spec2Model ----
(***************************************************************************)
(* Model of the certimate webhook: config.py (AppConfig and its lookups),  *)
(* sync.py (SSLSyncer) and main.py (the webhook handler and the background *)
(* sync task).                                                             *)
(*                                                                         *)
(* Strings that the code inspects character by character (the request     *)
(* name, rule keys, field names of a rule) are sequences of one-character  *)
(* strings; all other strings are atoms.  A Python dict is an ordered      *)
(* dict: [keys |-> sequence of keys in insertion order, vals |-> function].*)
(***************************************************************************)
EXTENDS Integers, Sequences, FiniteSets, TLC

VARIABLES
    global_config,  \* config.app_config: the AppConfig built at import
    app_config,     \* main.app_config: None until lifespan has run
    ssl_syncer,     \* main.ssl_syncer: None until lifespan has run
    playbooks,      \* the playbook files that exist under playbook_dir
    requests,       \* the webhook calls handled so far, in arrival order
    sync,           \* per request: the state of its background sync
    sg_in,          \* inventory check: the ServerGroup handed to the builder
    inv_out,        \* inventory check: the inventory built for sg_in
    res_in,         \* result check: what ansible_runner.run gave
    ret_out         \* result check: what _sync_to_server_group made of res_in

vars == <<global_config, app_config, ssl_syncer, playbooks, requests, sync,
          sg_in, inv_out, res_in, ret_out>>

\* ------------------------------------------------------------------ bounds

MaxRequests == 2    \* webhook calls in one behaviour
MaxHosts == 2       \* length of a hosts list in the inventory check

\* ------------------------------------------------------------- primitives

None == [none |-> TRUE]

Whitespace == {" ", "\t", "\n"}

RECURSIVE lstrip(_)
lstrip(s) ==
    IF s = <<>> THEN s
    ELSE IF Head(s) \in Whitespace THEN lstrip(Tail(s)) ELSE s

RECURSIVE rstrip(_)
rstrip(s) ==
    IF s = <<>> THEN s
    ELSE IF s[Len(s)] \in Whitespace THEN rstrip(SubSeq(s, 1, Len(s) - 1)) ELSE s

\* a plausible slip: only the leading whitespace is removed
strip_leading(s) == lstrip(s)

\* str.strip()
strip(s) == rstrip(lstrip(s))

\* str.startswith(prefix)
startswith(s, prefix) ==
    /\ Len(s) >= Len(prefix)
    /\ SubSeq(s, 1, Len(prefix)) = prefix

EmptyDict == [keys |-> <<>>, vals |-> <<>>]

\* d[k] = v on a Python dict: a new key goes last, an old key keeps its place
\* (old is d, evaluated once)
DictSet(d, k, v) ==
    CHOOSE new \in
        { [keys |-> IF k \in DOMAIN old.vals THEN old.keys ELSE Append(old.keys, k),
           vals |-> [x \in (DOMAIN old.vals) \cup {k} |->
                        IF x = k THEN v ELSE old.vals[x]]] : old \in {d} } : TRUE

\* k in d
DictHas(d, k) == k \in DOMAIN d.vals

\* ------------------------------------------------------------------ config

ServerGroup(name, hosts, ssh_user, ssh_key_path, ssh_pass, ssh_port) ==
    [name |-> name, hosts |-> hosts, ssh_user |-> ssh_user,
     ssh_key_path |-> ssh_key_path, ssh_pass |-> ssh_pass, ssh_port |-> ssh_port]

\* extra: the fields pydantic keeps beyond the declared ones ("extra": "allow")
PlaybookMapping(key, server_groups, playbook_file, extra) ==
    [key |-> key, server_groups |-> server_groups,
     playbook_file |-> playbook_file, extra |-> extra]

\* AppConfig after _load_config: the group registry and the rule list
AppConfig(server_groups, playbook_mappings) ==
    [server_groups |-> server_groups, playbook_mappings |-> playbook_mappings]

RECURSIVE FirstMatch(_, _, _)
FirstMatch(mappings, key, i) ==
    IF i > Len(mappings) THEN None
    ELSE IF mappings[i].key = key THEN mappings[i]
    ELSE FirstMatch(mappings, key, i + 1)

\* a plausible slip: the scan keeps going and the last rule with the key wins
RECURSIVE LastMatch(_, _, _)
LastMatch(mappings, key, i) ==
    IF i < 1 THEN None
    ELSE IF mappings[i].key = key THEN mappings[i]
    ELSE LastMatch(mappings, key, i - 1)

find_playbook_config_last(cfg, key) ==
    LastMatch(cfg.playbook_mappings, key, Len(cfg.playbook_mappings))

\* a plausible slip: keys compared after trimming both sides
RECURSIVE FirstMatchTrimmed(_, _, _)
FirstMatchTrimmed(mappings, key, i) ==
    IF i > Len(mappings) THEN None
    ELSE IF strip(mappings[i].key) = strip(key) THEN mappings[i]
    ELSE FirstMatchTrimmed(mappings, key, i + 1)

find_playbook_config_trimmed(cfg, key) ==
    FirstMatchTrimmed(cfg.playbook_mappings, key, 1)

\* next((pm for pm in self.playbook_mappings if pm.key == key), None)
find_playbook_config(cfg, key) == FirstMatch(cfg.playbook_mappings, key, 1)

\* the dict comprehension of get_servers_for_key over names[i..]
RECURSIVE CollectGroups(_, _, _, _)
CollectGroups(registry, names, i, acc) ==
    IF i > Len(names) THEN acc
    ELSE CollectGroups(registry, names, i + 1,
            IF DictHas(registry, names[i])
            THEN DictSet(acc, names[i], registry.vals[names[i]])
            ELSE acc)

\* a plausible slip: an unknown name is looked up all the same and the
\* KeyError is turned into an empty result
get_servers_for_key_strict(cfg, key) ==
    LET playbook_config == find_playbook_config(cfg, key) IN
    IF playbook_config = None THEN EmptyDict
    ELSE IF \E i \in 1..Len(playbook_config.server_groups) :
               ~DictHas(cfg.server_groups, playbook_config.server_groups[i])
    THEN EmptyDict
    ELSE CollectGroups(cfg.server_groups, playbook_config.server_groups, 1, EmptyDict)

\* a plausible slip: the comprehension walks the registry and keeps the groups
\* the rule names, so the map comes out in registry order
RECURSIVE CollectFromRegistry(_, _, _, _)
CollectFromRegistry(registry, names, i, acc) ==
    IF i > Len(registry.keys) THEN acc
    ELSE CollectFromRegistry(registry, names, i + 1,
            IF \E j \in 1..Len(names) : names[j] = registry.keys[i]
            THEN DictSet(acc, registry.keys[i], registry.vals[registry.keys[i]])
            ELSE acc)

get_servers_for_key_registry_order(cfg, key) ==
    LET playbook_config == find_playbook_config(cfg, key) IN
    IF playbook_config = None THEN EmptyDict
    ELSE CollectFromRegistry(cfg.server_groups, playbook_config.server_groups, 1, EmptyDict)

get_servers_for_key(cfg, key) ==
    LET playbook_config == find_playbook_config(cfg, key) IN
    IF playbook_config = None THEN EmptyDict
    ELSE CollectGroups(cfg.server_groups, playbook_config.server_groups, 1, EmptyDict)

\* PlaybookMapping.model_dump(): the declared fields, then the extra ones
RECURSIVE DumpExtra(_, _, _)
DumpExtra(extra, i, acc) ==
    IF i > Len(extra.keys) THEN acc
    ELSE DumpExtra(extra, i + 1, DictSet(acc, extra.keys[i], extra.vals[extra.keys[i]]))

model_dump(pm) ==
    DumpExtra(pm.extra, 1,
        DictSet(DictSet(DictSet(EmptyDict,
            <<"k", "e", "y">>, pm.key),
            <<"s", "e", "r", "v", "e", "r", "_", "g", "r", "o", "u", "p", "s">>,
                pm.server_groups),
            <<"p", "l", "a", "y", "b", "o", "o", "k", "_", "f", "i", "l", "e">>,
                pm.playbook_file))

VarPrefix == <<"v", "a", "r", "_">>

RECURSIVE CollectVars(_, _, _)
CollectVars(dump, i, acc) ==
    IF i > Len(dump.keys) THEN acc
    ELSE LET field_name == dump.keys[i] IN
         CollectVars(dump, i + 1,
            IF startswith(field_name, VarPrefix)
            THEN DictSet(acc, SubSeq(field_name, 5, Len(field_name)), dump.vals[field_name])
            ELSE acc)

\* a plausible slip: the extra fields are handed over as they are
get_ansible_vars_all_extras(pm) == pm.extra

get_ansible_vars(pm) == CollectVars(model_dump(pm), 1, EmptyDict)

\* --------------------------------------------------------------- inventory

\* a plausible slip: the key file is attached only when a user is configured
host_config_coupled(server_group) ==
    (IF server_group.ssh_port # 22
        THEN "ansible_port" :> server_group.ssh_port ELSE <<>>)
    @@ (IF server_group.ssh_user # ""
        THEN "ansible_user" :> server_group.ssh_user ELSE <<>>)
    @@ (IF server_group.ssh_user # "" /\ server_group.ssh_key_path # ""
        THEN "ansible_ssh_private_key_file" :> server_group.ssh_key_path ELSE <<>>)
    @@ (IF server_group.ssh_pass # ""
        THEN "ansible_ssh_pass" :> server_group.ssh_pass ELSE <<>>)

\* the per-host attribute dict; the order of its keys plays no part, so it is
\* a plain function from attribute name to value
host_config_of(server_group) ==
    (IF server_group.ssh_port # 22
        THEN "ansible_port" :> server_group.ssh_port ELSE <<>>)
    @@ (IF server_group.ssh_user # ""
        THEN "ansible_user" :> server_group.ssh_user ELSE <<>>)
    @@ (IF server_group.ssh_key_path # ""
        THEN "ansible_ssh_private_key_file" :> server_group.ssh_key_path ELSE <<>>)
    @@ (IF server_group.ssh_pass # ""
        THEN "ansible_ssh_pass" :> server_group.ssh_pass ELSE <<>>)

\* a plausible slip: the hosts are walked from the end of the list
RECURSIVE InventoryHostsBackwards(_, _, _)
InventoryHostsBackwards(server_group, i, acc) ==
    IF i > Len(server_group.hosts) THEN acc
    ELSE InventoryHostsBackwards(server_group, i + 1,
            DictSet(acc, server_group.hosts[Len(server_group.hosts) + 1 - i],
                    host_config_of(server_group)))

RECURSIVE InventoryHosts(_, _, _)
InventoryHosts(server_group, i, acc) ==
    IF i > Len(server_group.hosts) THEN acc
    ELSE InventoryHosts(server_group, i + 1,
            DictSet(acc, server_group.hosts[i], host_config_of(server_group)))

\* SSLSyncer._create_inventory_dict
create_inventory_dict(server_group) ==
    [ssl_servers |-> [hosts |-> InventoryHosts(server_group, 1, EmptyDict)]]

\* ------------------------------------------------- configurations checked

Registry ==
    DictSet(DictSet(DictSet(EmptyDict,
        "web", ServerGroup("web", <<"h1", "h2">>, "", "", "", 22)),
        "db", ServerGroup("db", <<"h3">>, "root", "/keys/db", "", 2222)),
        "lb", ServerGroup("lb", <<"h1">>, "", "", "secret", 22))

\* var_c, other, var (no underscore) and var_ (the bare prefix)
Extra1 ==
    DictSet(DictSet(DictSet(DictSet(EmptyDict,
        <<"v", "a", "r", "_", "c">>, "cert"),
        <<"o", "t", "h", "e", "r">>, "2"),
        <<"v", "a", "r">>, "3"),
        <<"v", "a", "r", "_">>, "bare")

Extra2 == DictSet(EmptyDict, <<"v", "a", "r", "_", "m">>, "mode")

\* "ghost" is in no registry; "web" is listed twice
RuleA1 == PlaybookMapping(<<"a">>, <<"web", "ghost", "db", "web">>, "nginx.yml", Extra1)
\* a second rule with the key of RuleA1
RuleA2 == PlaybookMapping(<<"a">>, <<"lb">>, "haproxy.yml", Extra2)
\* a key that differs from RuleA1's by case only
RuleUpper == PlaybookMapping(<<"A">>, <<"db", "lb", "web">>, "haproxy.yml", EmptyDict)
\* only unknown group names
RuleGhost == PlaybookMapping(<<"b">>, <<"ghost">>, "nginx.yml", EmptyDict)
\* a configured key that itself carries surrounding whitespace
RuleSpaced == PlaybookMapping(<<" ", "b">>, <<"lb">>, "nginx.yml", EmptyDict)

Configs ==
    { AppConfig(Registry, <<RuleA1, RuleA2, RuleGhost>>),
      AppConfig(Registry, <<RuleA2, RuleSpaced, RuleA1, RuleUpper>>),
      AppConfig(Registry, <<RuleUpper, RuleGhost>>) }

\* the name field of the payloads sent
Names ==
    { <<>>, <<" ", "\t">>, <<" ", "a", "\n">>, <<"A">>, <<" ", "b", " ">> }

PlaybookFiles == {"nginx.yml", "haproxy.yml"}

\* what ansible_runner.run can do: return a result with this status, or raise
RunnerStatuses == {"successful", "failed", "timeout"}
RunnerOutcomes == RunnerStatuses \cup {"raised"}

\* ---------------------------------------------------------- webhook (main)

HTTPException(status_code, detail) ==
    [status_code |-> status_code, body |-> [detail |-> detail]]

\* background_tasks.add_task(sync_ssl_certificate_task, key, playbook_config,
\* server_groups)
Task(key, playbook_config, server_groups) ==
    [key |-> key, playbook_config |-> playbook_config, server_groups |-> server_groups]

\* a plausible slip: the response lists the group names the rule declares
\* instead of the names of the resolved map
AcceptedAsDeclared(key, playbook_config, server_groups) ==
    [status_code |-> 200,
     body |-> [status |-> "accepted", key |-> key,
               server_groups |-> playbook_config.server_groups,
               playbook_file |-> playbook_config.playbook_file]]

\* the dict the handler returns once the task is added
Accepted(key, playbook_config, server_groups) ==
    [status_code |-> 200,
     body |-> [status |-> "accepted", key |-> key,
               server_groups |-> server_groups.keys,
               playbook_file |-> playbook_config.playbook_file]]

\* a plausible slip: the task is added as soon as the rule is found, before
\* the group map is looked at
ssl_update_webhook_handler_early_task(name) ==
    IF app_config = None \/ ssl_syncer = None
    THEN [response |-> HTTPException(503, "not_initialised"), background_tasks |-> <<>>]
    ELSE
    LET key == strip(name) IN
    IF key = <<>>
    THEN [response |-> HTTPException(400, "empty_key"), background_tasks |-> <<>>]
    ELSE
    LET playbook_config == find_playbook_config(app_config, key) IN
    IF playbook_config = None
    THEN [response |-> HTTPException(404, "no_playbook_config"), background_tasks |-> <<>>]
    ELSE
    LET server_groups == get_servers_for_key(app_config, key) IN
    IF server_groups.keys = <<>>
    THEN [response |-> HTTPException(404, "no_server_groups"),
          background_tasks |-> <<Task(key, playbook_config, server_groups)>>]
    ELSE [response |-> Accepted(key, playbook_config, server_groups),
          background_tasks |-> <<Task(key, playbook_config, server_groups)>>]

\* ssl_update_webhook_handler: the response and the tasks it leaves in
\* background_tasks
ssl_update_webhook_handler(name) ==
    IF app_config = None \/ ssl_syncer = None
    THEN [response |-> HTTPException(503, "not_initialised"), background_tasks |-> <<>>]
    ELSE
    LET key == strip(name) IN
    IF key = <<>>
    THEN [response |-> HTTPException(400, "empty_key"), background_tasks |-> <<>>]
    ELSE
    LET playbook_config == find_playbook_config(app_config, key) IN
    IF playbook_config = None
    THEN [response |-> HTTPException(404, "no_playbook_config"), background_tasks |-> <<>>]
    ELSE
    LET server_groups == get_servers_for_key(app_config, key) IN
    IF server_groups.keys = <<>>
    THEN [response |-> HTTPException(404, "no_server_groups"), background_tasks |-> <<>>]
    ELSE [response |-> Accepted(key, playbook_config, server_groups),
          background_tasks |-> <<Task(key, playbook_config, server_groups)>>]

\* the route table: lifespan registers the webhook route after it has set both
\* globals, in the one step Lifespan models, and nothing removes the route or
\* resets the globals
webhook_route_registered == app_config # None /\ ssl_syncer # None

\* the application answers a POST to the webhook path: the router's 404 while
\* the route is not registered, the handler's answer once it is
post_webhook(name) ==
    IF ~webhook_route_registered
    THEN [response |-> HTTPException(404, "Not Found"), background_tasks |-> <<>>]
    ELSE ssl_update_webhook_handler(name)

\* the state of one request's background sync
\* pc: where the task stands; playbook_found: what playbook_path.exists() gave;
\* idx: the position of the loop in the group map; success: the value returned
\* (read when pc = "done"); calls: the runner invocations made, in order
SyncState(pc, playbook_found, idx, success, calls) ==
    [pc |-> pc, playbook_found |-> playbook_found, idx |-> idx,
     success |-> success, calls |-> calls]

\* ------------------------------------------------------------------ actions

\* lifespan, up to its yield: the globals are set and the route is registered
Lifespan ==
    /\ app_config = None
    /\ app_config' = global_config
    /\ ssl_syncer' = [app_config |-> global_config, playbook_dir |-> "playbooks"]
    /\ UNCHANGED <<global_config, playbooks, requests, sync, sg_in, inv_out, res_in, ret_out>>

\* one POST to the webhook path, handled to its response
Webhook(name) ==
    /\ Len(requests) < MaxRequests
    /\ LET out == post_webhook(name) IN
       /\ requests' = Append(requests,
             [name |-> name, response |-> out.response,
              background_tasks |-> out.background_tasks])
       /\ sync' = Append(sync,
             SyncState(IF out.background_tasks = <<>> THEN "no_task" ELSE "not_started",
                       FALSE, 0, FALSE, <<>>))
    /\ UNCHANGED <<global_config, app_config, ssl_syncer, playbooks, sg_in, inv_out, res_in, ret_out>>

\* a plausible slip: the existence check is left out
playbook_exists_unchecked(playbook_file) == TRUE

\* playbook_path.exists() for playbook_dir / playbook_file
playbook_exists(playbook_file) == playbook_file \in playbooks

\* sync_ssl_certificate_task starts and sync_ssl_certificate runs up to its loop
SyncStart(r) ==
    /\ r \in 1..Len(requests)
    /\ sync[r].pc = "not_started"
    /\ LET task == requests[r].background_tasks[1] IN
       sync' = [sync EXCEPT ![r] =
          IF ssl_syncer = None
          THEN SyncState("done", FALSE, 0, FALSE, <<>>)
          ELSE IF ~playbook_exists(task.playbook_config.playbook_file)
          THEN SyncState("done", FALSE, 0, FALSE, <<>>)
          ELSE IF task.server_groups.keys = <<>>
          THEN SyncState("done", TRUE, 0, TRUE, <<>>)
          ELSE SyncState("iterating", TRUE, 1, FALSE, <<>>)]
    /\ UNCHANGED <<global_config, app_config, ssl_syncer, playbooks, requests,
                   sg_in, inv_out, res_in, ret_out>>

\* the arguments _sync_to_server_group hands to ansible_runner.run
RunnerCall(playbook_config, server_group, group_name, status) ==
    [group_name |-> group_name,
     playbook |-> playbook_config.playbook_file,
     inventory |-> create_inventory_dict(server_group),
     extravars |-> get_ansible_vars(playbook_config),
     ssh_key |-> server_group.ssh_key_path,
     status |-> status]

\* a plausible slip: the inventory and the key are prepared once, from the
\* first group of the map, and used for every group of the request
SyncInvokeFirstGroup(r) ==
    /\ r \in 1..Len(requests)
    /\ sync[r].pc = "iterating"
    /\ LET task == requests[r].background_tasks[1]
           group_name == task.server_groups.keys[sync[r].idx]
           server_group == task.server_groups.vals[task.server_groups.keys[1]]
       IN sync' = [sync EXCEPT ![r] =
            SyncState("running", TRUE, sync[r].idx, FALSE,
                Append(sync[r].calls,
                    RunnerCall(task.playbook_config, server_group, group_name, "running")))]
    /\ UNCHANGED <<global_config, app_config, ssl_syncer, playbooks, requests,
                   sg_in, inv_out, res_in, ret_out>>

\* a plausible slip: the syncs share one lock, so that a sync waits with its
\* next group while the runner is at work for another request
SyncInvokeSerialised(r) ==
    /\ r \in 1..Len(requests)
    /\ sync[r].pc = "iterating"
    /\ \A other \in 1..Len(requests) : sync[other].pc # "running"
    /\ LET task == requests[r].background_tasks[1]
           group_name == task.server_groups.keys[sync[r].idx]
           server_group == task.server_groups.vals[group_name]
       IN sync' = [sync EXCEPT ![r] =
            SyncState("running", TRUE, sync[r].idx, FALSE,
                Append(sync[r].calls,
                    RunnerCall(task.playbook_config, server_group, group_name, "running")))]
    /\ UNCHANGED <<global_config, app_config, ssl_syncer, playbooks, requests,
                   sg_in, inv_out, res_in, ret_out>>

\* a plausible slip: the default user is filled in on the group itself, which
\* the registry owns, instead of on the host entry of the inventory
SyncInvokeFillingDefaults(r) ==
    /\ r \in 1..Len(requests)
    /\ sync[r].pc = "iterating"
    /\ LET task == requests[r].background_tasks[1]
           group_name == task.server_groups.keys[sync[r].idx]
           server_group == task.server_groups.vals[group_name]
           filled == IF server_group.ssh_user = ""
                     THEN [server_group EXCEPT !.ssh_user = "root"]
                     ELSE server_group
       IN /\ sync' = [sync EXCEPT ![r] =
                SyncState("running", TRUE, sync[r].idx, FALSE,
                    Append(sync[r].calls,
                        RunnerCall(task.playbook_config, filled, group_name, "running")))]
          /\ global_config' =
                [global_config EXCEPT !.server_groups.vals[group_name] = filled]
    /\ UNCHANGED <<app_config, ssl_syncer, playbooks, requests,
                   sg_in, inv_out, res_in, ret_out>>

\* the loop of sync_ssl_certificate enters _sync_to_server_group, up to the
\* call of the runner
SyncInvoke(r) ==
    /\ r \in 1..Len(requests)
    /\ sync[r].pc = "iterating"
    /\ LET task == requests[r].background_tasks[1]
           group_name == task.server_groups.keys[sync[r].idx]
           server_group == task.server_groups.vals[group_name]
       IN sync' = [sync EXCEPT ![r] =
            SyncState("running", TRUE, sync[r].idx, FALSE,
                Append(sync[r].calls,
                    RunnerCall(task.playbook_config, server_group, group_name, "running")))]
    /\ UNCHANGED <<global_config, app_config, ssl_syncer, playbooks, requests,
                   sg_in, inv_out, res_in, ret_out>>

\* What ansible_runner.run gave: it raised, or it returned an object of some
\* shape.  status: a status string, or "missing" (no such attribute).
\* rc: "value", "missing", or "raises" (reading the attribute raises something
\* other than AttributeError).  stdout: "missing", "none", "not_readable" (no
\* read method), "empty", "text", "read_raises", "attr_raises".  events:
\* "missing", "empty", "failed_events" (mappings, runner_on_failed among
\* them), "not_mappings", "not_iterable", "attr_raises", "get_raises".
RunnerResult(raised, status, rc, stdout, events) ==
    [raised |-> raised, status |-> status, rc |-> rc, stdout |-> stdout,
     events |-> events]

\* an exception leaves the body of the try at sync.py:80-85
ExtractStdoutRaises(result) == result.stdout \in {"read_raises", "attr_raises"}

\* an exception leaves the body of the try at sync.py:90-97
ExtractEventsRaises(result) ==
    result.events \in {"not_iterable", "attr_raises", "get_raises"}

\* a plausible slip: the extraction runs without handlers of its own and
\* outside the outer try, so what it raises leaves the function
sync_to_server_group_unguarded(result) ==
    IF result.raised \/ result.status = "missing"
    THEN [raises |-> FALSE, value |-> FALSE, logged |-> {"exception"}]
    ELSE IF result.status = "successful"
    THEN [raises |-> FALSE, value |-> TRUE, logged |-> {}]
    ELSE IF result.rc = "raises" \/ ExtractStdoutRaises(result)
            \/ ExtractEventsRaises(result)
    THEN [raises |-> TRUE, value |-> FALSE, logged |-> {}]
    ELSE [raises |-> FALSE, value |-> FALSE,
          logged |-> {"rc"}
              \cup (IF result.stdout = "text" THEN {"stdout"} ELSE {})
              \cup (IF result.events = "failed_events" THEN {"events"} ELSE {})]

\* _sync_to_server_group from the return of ansible_runner.run on: whether it
\* raises, the value it returns, and what it logs beyond the verdict
sync_to_server_group(result) ==
    \* the call itself, result.status (line 72) and the rc line (77) are
    \* covered by the outer handler only
    IF \/ result.raised
       \/ result.status = "missing"
       \/ (result.status # "successful" /\ result.rc = "raises")
    THEN [raises |-> FALSE, value |-> FALSE, logged |-> {"exception"}]
    ELSE IF result.status = "successful"
    THEN [raises |-> FALSE, value |-> TRUE, logged |-> {}]
    ELSE \* the handlers at lines 86 and 98 pass on whatever the extraction raises
         [raises |-> FALSE, value |-> FALSE,
          logged |-> {"rc"}
              \cup (IF ~ExtractStdoutRaises(result) /\ result.stdout = "text"
                    THEN {"stdout"} ELSE {})
              \cup (IF ~ExtractEventsRaises(result) /\ result.events = "failed_events"
                    THEN {"events"} ELSE {})]

\* the result behind an outcome of the runner in the service model: the
\* runner raised, or returned a well-formed result with that status
ResultFor(outcome) ==
    IF outcome = "raised"
    THEN RunnerResult(TRUE, "missing", "missing", "missing", "missing")
    ELSE RunnerResult(FALSE, outcome, "value", "text", "failed_events")

\* a plausible slip: the handler of the group logs the exception and lets the
\* loop go on, as if the group had been done
sync_to_server_group_result_lenient(outcome) ==
    outcome \in {"successful", "raised"}

\* what _sync_to_server_group returns for an outcome of the runner
sync_to_server_group_result(outcome) ==
    LET ret == sync_to_server_group(ResultFor(outcome)) IN
    ~ret.raises /\ ret.value

\* a plausible slip: the request is answered from the sync, so a sync that
\* ends in failure rewrites the response
RunnerReturnsReporting(r, outcome) ==
    /\ r \in 1..Len(requests)
    /\ sync[r].pc = "running"
    /\ LET task == requests[r].background_tasks[1]
           n == Len(sync[r].calls)
           calls == [sync[r].calls EXCEPT ![n].status = outcome]
       IN /\ sync' = [sync EXCEPT ![r] =
                IF outcome # "successful"
                THEN SyncState("done", TRUE, sync[r].idx, FALSE, calls)
                ELSE IF sync[r].idx < Len(task.server_groups.keys)
                THEN SyncState("iterating", TRUE, sync[r].idx + 1, FALSE, calls)
                ELSE SyncState("done", TRUE, sync[r].idx, TRUE, calls)]
          /\ requests' = [requests EXCEPT ![r].response =
                IF outcome # "successful"
                THEN HTTPException(500, "sync_failed") ELSE @]
    /\ UNCHANGED <<global_config, app_config, ssl_syncer, playbooks, sg_in, inv_out, res_in, ret_out>>

\* a plausible slip: the loop ignores what _sync_to_server_group returns and
\* goes on to the next group
RunnerReturnsNoStop(r, outcome) ==
    /\ r \in 1..Len(requests)
    /\ sync[r].pc = "running"
    /\ LET task == requests[r].background_tasks[1]
           n == Len(sync[r].calls)
           calls == [sync[r].calls EXCEPT ![n].status = outcome]
       IN sync' = [sync EXCEPT ![r] =
            IF sync[r].idx < Len(task.server_groups.keys)
            THEN SyncState("iterating", TRUE, sync[r].idx + 1, FALSE, calls)
            ELSE SyncState("done", TRUE, sync[r].idx,
                           \A i \in 1..n : calls[i].status = "successful", calls)]
    /\ UNCHANGED <<global_config, app_config, ssl_syncer, playbooks, requests,
                   sg_in, inv_out, res_in, ret_out>>

\* a plausible slip: a group that failed is tried again
RunnerReturnsRetry(r, outcome) ==
    /\ r \in 1..Len(requests)
    /\ sync[r].pc = "running"
    /\ LET task == requests[r].background_tasks[1]
           n == Len(sync[r].calls)
           calls == [sync[r].calls EXCEPT ![n].status = outcome]
       IN sync' = [sync EXCEPT ![r] =
            IF ~sync_to_server_group_result(outcome)
            THEN IF n < Len(task.server_groups.keys) + 1
                 THEN SyncState("iterating", TRUE, sync[r].idx, FALSE, calls)
                 ELSE SyncState("done", TRUE, sync[r].idx, FALSE, calls)
            ELSE IF sync[r].idx < Len(task.server_groups.keys)
            THEN SyncState("iterating", TRUE, sync[r].idx + 1, FALSE, calls)
            ELSE SyncState("done", TRUE, sync[r].idx, TRUE, calls)]
    /\ UNCHANGED <<global_config, app_config, ssl_syncer, playbooks, requests,
                   sg_in, inv_out, res_in, ret_out>>

\* the runner returns or raises; _sync_to_server_group returns and the loop of
\* sync_ssl_certificate goes on or returns
RunnerReturns(r, outcome) ==
    /\ r \in 1..Len(requests)
    /\ sync[r].pc = "running"
    /\ LET task == requests[r].background_tasks[1]
           n == Len(sync[r].calls)
           calls == [sync[r].calls EXCEPT ![n].status = outcome]
       IN sync' = [sync EXCEPT ![r] =
            IF ~sync_to_server_group_result(outcome)
            THEN SyncState("done", TRUE, sync[r].idx, FALSE, calls)
            ELSE IF sync[r].idx < Len(task.server_groups.keys)
            THEN SyncState("iterating", TRUE, sync[r].idx + 1, FALSE, calls)
            ELSE SyncState("done", TRUE, sync[r].idx, TRUE, calls)]
    /\ UNCHANGED <<global_config, app_config, ssl_syncer, playbooks, requests,
                   sg_in, inv_out, res_in, ret_out>>

\* the environment adds or removes a playbook file
PlaybookFsChange(f) ==
    /\ playbooks' = IF f \in playbooks THEN playbooks \ {f} ELSE playbooks \cup {f}
    /\ UNCHANGED <<global_config, app_config, ssl_syncer, requests, sync,
                   sg_in, inv_out, res_in, ret_out>>

Init ==
    /\ global_config \in Configs
    /\ app_config = None
    /\ ssl_syncer = None
    /\ playbooks \in SUBSET PlaybookFiles
    /\ requests = <<>>
    /\ sync = <<>>
    /\ sg_in = None
    /\ inv_out = None
    /\ res_in = None
    /\ ret_out = None

Next ==
    \/ Lifespan
    \/ \E name \in Names : Webhook(name)
    \/ \E r \in 1..MaxRequests : SyncStart(r)
    \/ \E r \in 1..MaxRequests : SyncInvoke(r)
    \/ \E r \in 1..MaxRequests, outcome \in RunnerOutcomes : RunnerReturns(r, outcome)
    \/ \E f \in PlaybookFiles : PlaybookFsChange(f)

Spec == Init /\ [][Next]_vars

\* what the event loop and its thread pool do for the task of request r: the
\* task added to background_tasks is started once the response is sent, the
\* loop of sync_ssl_certificate runs on in its worker thread, and the runner
\* gives control back, by returning or by raising
SyncSteps(r) ==
    \/ SyncStart(r)
    \/ SyncInvoke(r)
    \/ \E outcome \in RunnerOutcomes : RunnerReturns(r, outcome)

\* the service started with the configuration whose rule has the longest
\* group list (three groups) next to a rule that names no known group
InitLive ==
    /\ Init
    /\ global_config = AppConfig(Registry, <<RuleUpper, RuleGhost>>)

SpecLive ==
    /\ InitLive
    /\ [][Next]_vars
    /\ \A r \in 1..MaxRequests : WF_vars(SyncSteps(r))

\* ------------------------------------------ the inventory builder on its own

HostNames == {"h1", "h2"}
HostLists == UNION { [1..n -> HostNames] : n \in 0..MaxHosts }

ServerGroupInputs ==
    { ServerGroup("g", hosts, ssh_user, ssh_key_path, ssh_pass, ssh_port) :
        hosts \in HostLists,
        ssh_user \in {"", "deploy"},
        ssh_key_path \in {"", "/keys/id"},
        ssh_pass \in {"", "secret"},
        ssh_port \in {21, 22, 2222} }

InitInventory ==
    /\ global_config = AppConfig(EmptyDict, <<>>)
    /\ app_config = None
    /\ ssl_syncer = None
    /\ playbooks = {}
    /\ requests = <<>>
    /\ sync = <<>>
    /\ sg_in \in ServerGroupInputs
    /\ inv_out = None
    /\ res_in = None
    /\ ret_out = None

\* self._create_inventory_dict(server_group)
BuildInventory ==
    /\ inv_out = None
    /\ inv_out' = create_inventory_dict(sg_in)
    /\ UNCHANGED <<global_config, app_config, ssl_syncer, playbooks, requests,
                   sync, sg_in, res_in, ret_out>>

NextInventory == BuildInventory

SpecInventory == InitInventory /\ [][NextInventory]_vars

\* ---------------------------------- the reading of a runner result on its own

ResultShapes ==
    { RunnerResult(FALSE, status, rc, stdout, events) :
        status \in RunnerStatuses \cup {"canceled", "missing"},
        rc \in {"value", "missing", "raises"},
        stdout \in {"missing", "none", "not_readable", "empty", "text",
                    "read_raises", "attr_raises"},
        events \in {"missing", "empty", "failed_events", "not_mappings",
                    "not_iterable", "attr_raises", "get_raises"} }
    \cup { ResultFor("raised") }

InitDiagnostics ==
    /\ global_config = AppConfig(EmptyDict, <<>>)
    /\ app_config = None
    /\ ssl_syncer = None
    /\ playbooks = {}
    /\ requests = <<>>
    /\ sync = <<>>
    /\ sg_in = None
    /\ inv_out = None
    /\ res_in \in ResultShapes
    /\ ret_out = None

\* _sync_to_server_group, from the return of the runner to its own return
InterpretResult ==
    /\ ret_out = None
    /\ ret_out' = sync_to_server_group(res_in)
    /\ UNCHANGED <<global_config, app_config, ssl_syncer, playbooks, requests,
                   sync, sg_in, inv_out, res_in>>

NextDiagnostics == InterpretResult

SpecDiagnostics == InitDiagnostics /\ [][NextDiagnostics]_vars

\* ------------------------------------------------- vocabulary of the claims

\* the task of request r, and its group map
TaskOf(r) == requests[r].background_tasks[1]
GroupsOf(r) == TaskOf(r).server_groups

\* the names a list declares that the registry knows, each once, in the order
\* of their first appearance: seq is that list
FirstPos(names, n) == CHOOSE i \in 1..Len(names) :
    names[i] = n /\ \A j \in 1..(i - 1) : names[j] # n

IsDeclaredOrder(seq, names, registry) ==
    /\ { seq[i] : i \in 1..Len(seq) } =
       { names[i] : i \in { p \in 1..Len(names) : names[p] \in DOMAIN registry.vals } }
    /\ \A i, j \in 1..Len(seq) : i < j =>
          /\ seq[i] # seq[j]
          /\ FirstPos(names, seq[i]) < FirstPos(names, seq[j])

\* the contiguous pieces of a string
Infixes(s) ==
    { SubSeq(s, lo, hi) : lo \in 1..(Len(s) + 1), hi \in 0..Len(s) }

\* name is k with nothing but whitespace before and after it
IsPaddingOf(name, k) ==
    \E lo \in 1..(Len(name) + 1), hi \in 0..Len(name) :
        /\ lo <= hi + 1
        /\ SubSeq(name, lo, hi) = k
        /\ \A x \in 1..(lo - 1) : name[x] \in Whitespace
        /\ \A x \in (hi + 1)..Len(name) : name[x] \in Whitespace

\* k neither starts nor ends with whitespace
IsTrimmed(k) ==
    k # <<>> => (k[1] \notin Whitespace /\ k[Len(k)] \notin Whitespace)

\* k is name trimmed of its surrounding whitespace
IsTrimOf(k, name) == IsPaddingOf(name, k) /\ IsTrimmed(k)

HasRule(cfg, k) ==
    \E i \in 1..Len(cfg.playbook_mappings) : cfg.playbook_mappings[i].key = k

\* the lowest position of a rule with key k
FirstIndex(cfg, k) ==
    CHOOSE i \in 1..Len(cfg.playbook_mappings) :
        /\ cfg.playbook_mappings[i].key = k
        /\ \A j \in 1..(i - 1) : cfg.playbook_mappings[j].key # k

FirstRule(cfg, k) == cfg.playbook_mappings[FirstIndex(cfg, k)]

\* the rule names at least one group of the registry
NamesKnownGroup(cfg, rule) ==
    \E i \in 1..Len(rule.server_groups) :
        rule.server_groups[i] \in DOMAIN cfg.server_groups.vals

\* the keys the lookups are probed with: every piece of every name sent, and
\* every configured key
ProbeKeys ==
    UNION { Infixes(n) : n \in Names }
    \cup { global_config.playbook_mappings[i].key :
              i \in 1..Len(global_config.playbook_mappings) }

IsAccepted(response) ==
    response.status_code = 200 /\ response.body.status = "accepted"

IsError(response, status_code, detail) ==
    response.status_code = status_code /\ response.body.detail = detail

\* --------------------------------------------------------------------- C1

\* C1: fail-fast.  In one sync, a runner invocation that ended with anything
\* but 'successful' (a status other than successful, or an exception) is the
\* last invocation of that sync, and the sync has returned False.
C1_FailFast ==
    \A r \in 1..Len(sync) : \A i \in 1..Len(sync[r].calls) :
        sync[r].calls[i].status \notin {"successful", "running"} =>
            /\ i = Len(sync[r].calls)
            /\ sync[r].pc = "done"
            /\ sync[r].success = FALSE

\* a sync over three groups whose second group failed after the first
\* succeeded: the third was never invoked
C1_Witness ==
    \E r \in 1..Len(sync) :
        /\ sync[r].pc = "done"
        /\ Len(GroupsOf(r).keys) = 3
        /\ Len(sync[r].calls) = 2
        /\ sync[r].calls[1].status = "successful"
        /\ sync[r].calls[2].status = "failed"
        /\ sync[r].success = FALSE

\* --------------------------------------------------------------------- C2

\* C2: the runner is invoked on the groups of the map in order, one call per
\* group, and that order is the order of the rule's server_groups list; a
\* sync that found the playbook and whose invocations all ended 'successful'
\* returns True after exactly N invocations.
C2_AllSucceed ==
    \A r \in 1..Len(sync) :
        LET calls == sync[r].calls IN
        /\ Len(calls) > 0 =>
              /\ Len(calls) <= Len(GroupsOf(r).keys)
              /\ \A i \in 1..Len(calls) : calls[i].group_name = GroupsOf(r).keys[i]
              /\ IsDeclaredOrder(GroupsOf(r).keys,
                                 TaskOf(r).playbook_config.server_groups,
                                 global_config.server_groups)
        /\ ( /\ sync[r].pc = "done"
             /\ sync[r].playbook_found
             /\ \A i \in 1..Len(calls) : calls[i].status = "successful" )
           => /\ sync[r].success
              /\ Len(calls) = Len(GroupsOf(r).keys)

\* a sync that returned True over the three groups of a rule that declares
\* them in an order other than the registry's
C2_Witness ==
    \E r \in 1..Len(sync) :
        /\ sync[r].pc = "done"
        /\ sync[r].success
        /\ Len(sync[r].calls) = 3
        /\ sync[r].calls[1].group_name = "db"

\* --------------------------------------------------------------------- C3

\* C3: a sync that starts while its playbook file does not exist ends at once
\* with False and without a runner invocation, and a finished sync never
\* invokes the runner later.
C3_PlaybookMissing ==
    [][\A r \in 1..Len(sync) :
          /\ ( /\ sync[r].pc = "not_started"
               /\ sync'[r].pc # "not_started"
               /\ TaskOf(r).playbook_config.playbook_file \notin playbooks )
             => /\ sync'[r].pc = "done"
                /\ sync'[r].success = FALSE
                /\ sync'[r].calls = <<>>
          /\ sync[r].pc = "done" => sync'[r] = sync[r]]_vars

\* a sync over a non-empty map that ended on the missing playbook
C3_Witness ==
    \E r \in 1..Len(sync) :
        /\ sync[r].pc = "done"
        /\ ~sync[r].playbook_found
        /\ Len(GroupsOf(r).keys) >= 2
        /\ sync[r].calls = <<>>
        /\ sync[r].success = FALSE

\* --------------------------------------------------------------------- C4

\* the response the fixed order of checks gives for a name, with key the
\* trimmed name
OrderedChecks(cfg, name, response) ==
    \E key \in Infixes(name) :
        /\ IsTrimOf(key, name)
        /\ IF key = <<>> THEN IsError(response, 400, "empty_key")
           ELSE IF ~HasRule(cfg, key) THEN IsError(response, 404, "no_playbook_config")
           ELSE IF ~NamesKnownGroup(cfg, FirstRule(cfg, key))
                THEN IsError(response, 404, "no_server_groups")
           ELSE IsAccepted(response) /\ response.body.key = key

\* a step in which the initialised application answers one more POST
AnswersWhenInitialised ==
    /\ app_config # None
    /\ ssl_syncer # None
    /\ Len(requests') = Len(requests) + 1

\* C4, as stated: the response follows the fixed order of checks, and a name
\* that differs from a configured key (of a rule with a known group) only by
\* surrounding whitespace is accepted.
C4_AsStated ==
    [][AnswersWhenInitialised =>
        LET req == requests'[Len(requests')] IN
        /\ OrderedChecks(app_config, req.name, req.response)
        /\ \A i \in 1..Len(app_config.playbook_mappings) :
              LET rule == app_config.playbook_mappings[i] IN
              ( /\ req.name # rule.key
                /\ IsPaddingOf(req.name, rule.key)
                /\ rule.key # <<>>
                /\ NamesKnownGroup(app_config, rule) )
              => IsAccepted(req.response)]_vars

\* C4, amended: the response follows the fixed order of checks on the trimmed
\* name (empty -> 400, no rule -> 404, empty group map -> 404, else accepted);
\* a name that differs only by surrounding whitespace from a configured key
\* that has none of its own is accepted when the first rule of that key
\* names a known group, and a rule whose key carries surrounding whitespace
\* is never the rule of an accepted request.
C4_ValidationOrder ==
    [][AnswersWhenInitialised =>
        LET req == requests'[Len(requests')] IN
        /\ OrderedChecks(app_config, req.name, req.response)
        /\ \A i \in 1..Len(app_config.playbook_mappings) :
              LET rule == app_config.playbook_mappings[i] IN
              /\ ( /\ IsPaddingOf(req.name, rule.key)
                   /\ rule.key # <<>>
                   /\ IsTrimmed(rule.key)
                   /\ NamesKnownGroup(app_config, FirstRule(app_config, rule.key)) )
                 => IsAccepted(req.response)
              /\ ~IsTrimmed(rule.key) =>
                    ~( /\ req.background_tasks # <<>>
                       /\ req.background_tasks[1].playbook_config = rule )]_vars

\* a padded name was accepted under its trimmed key, a whitespace-only name
\* got 400, and the configuration holds a key with whitespace of its own
C4_Witness ==
    /\ \E r \in 1..Len(requests) :
          /\ IsAccepted(requests[r].response)
          /\ requests[r].name # requests[r].response.body.key
    /\ \E r \in 1..Len(requests) :
          /\ requests[r].name # <<>>
          /\ IsError(requests[r].response, 400, "empty_key")
    /\ \E i \in 1..Len(global_config.playbook_mappings) :
          ~IsTrimmed(global_config.playbook_mappings[i].key)

\* --------------------------------------------------------------------- C5

\* C5: an accepted request holds exactly one scheduled sync task; a request
\* answered with 400, 404, 500 or 503 holds none, its sync never starts and
\* no runner invocation is made for it.
C5_ScheduledIffAccepted ==
    \A r \in 1..Len(requests) :
        /\ IsAccepted(requests[r].response) <=> requests[r].background_tasks # <<>>
        /\ IsAccepted(requests[r].response) =>
              /\ Len(requests[r].background_tasks) = 1
              /\ sync[r].pc # "no_task"
        /\ requests[r].response.status_code \in {400, 404, 500, 503} =>
              /\ requests[r].background_tasks = <<>>
              /\ sync[r].pc = "no_task"
              /\ sync[r].calls = <<>>
        /\ requests[r].response.status_code \in {200, 400, 404, 500, 503}

\* one request was refused for its empty group map, another was accepted and
\* its sync has invoked the runner
C5_Witness ==
    /\ \E r \in 1..Len(requests) : IsError(requests[r].response, 404, "no_server_groups")
    /\ \E r \in 1..Len(requests) :
          IsAccepted(requests[r].response) /\ sync[r].calls # <<>>

\* --------------------------------------------------------------------- C6

\* C6: the response of a request is produced in the step that handles it,
\* when no runner invocation of the request has been made; no later step of
\* any sync (success, failed group, missing playbook, exception) changes it;
\* a runner invocation is started or completed only for a request already
\* answered 'accepted'; two accepted requests with the same name carry the
\* same response whatever their syncs did.
C6_ResponseIndependent ==
    [][/\ \A r \in 1..Len(requests) :
             /\ requests'[r] = requests[r]
             /\ sync'[r].calls # sync[r].calls => IsAccepted(requests[r].response)
       /\ Len(requests') > Len(requests) =>
             /\ sync'[Len(requests')].calls = <<>>
             /\ sync'[Len(requests')].pc \in {"no_task", "not_started"}
       /\ \A r1, r2 \in 1..Len(requests') :
             ( /\ requests'[r1].name = requests'[r2].name
               /\ IsAccepted(requests'[r1].response)
               /\ IsAccepted(requests'[r2].response) )
             => requests'[r1].response = requests'[r2].response]_vars

\* two accepted requests with the same name: the sync of one returned True,
\* the sync of the other returned False
C6_Witness ==
    \E r1, r2 \in 1..Len(requests) :
        /\ requests[r1].name = requests[r2].name
        /\ IsAccepted(requests[r1].response)
        /\ requests[r1].response = requests[r2].response
        /\ sync[r1].pc = "done" /\ sync[r1].success
        /\ sync[r2].pc = "done" /\ ~sync[r2].success /\ sync[r2].calls # <<>>

\* --------------------------------------------------------------------- C7

C8_FirstMatchWins ==
    /\ \A k \in ProbeKeys :
          HasRule(global_config, k) =>
              find_playbook_config(global_config, k) = FirstRule(global_config, k)
    /\ \A r \in 1..Len(requests) :
          IsAccepted(requests[r].response) =>
              LET rule == FirstRule(global_config, requests[r].response.body.key) IN
              /\ rule.key = requests[r].response.body.key
              /\ TaskOf(r).playbook_config = rule
              /\ requests[r].response.body.playbook_file = rule.playbook_file
              /\ IsDeclaredOrder(GroupsOf(r).keys, rule.server_groups,
                                 global_config.server_groups)
              /\ \A i \in 1..Len(sync[r].calls) :
                    /\ sync[r].calls[i].playbook = rule.playbook_file
                    /\ sync[r].calls[i].extravars = get_ansible_vars(rule)

\* an accepted request whose key is carried by two rules with different
\* playbooks, in a configuration that also has the key in another case; its
\* sync has invoked the runner
C8_Witness ==
    \E r \in 1..Len(requests) :
        /\ IsAccepted(requests[r].response)
        /\ sync[r].calls # <<>>
        /\ \E i, j \in 1..Len(global_config.playbook_mappings) :
              /\ i < j
              /\ global_config.playbook_mappings[i].key = requests[r].response.body.key
              /\ global_config.playbook_mappings[j].key = requests[r].response.body.key
              /\ global_config.playbook_mappings[i].playbook_file
                    # global_config.playbook_mappings[j].playbook_file
        /\ HasRule(global_config, <<"A">>)
        /\ requests[r].response.body.key = <<"a">>

\* --------------------------------------------------------------------- C9

\* C9: get_servers_for_key returns a map for every key: its names are the
\* names of the rule's server_groups list that the registry knows, each once,
\* in the order of the list; each is mapped to the registry's group of that
\* name; a rule that names only unknown groups gives the empty map.
C9_ResolveGroups ==
    /\ \A r \in 1..Len(requests) :
          /\ IsError(requests[r].response, 404, "no_server_groups") =>
                \E k \in Infixes(requests[r].name) :
                    /\ IsTrimOf(k, requests[r].name)
                    /\ HasRule(global_config, k)
                    /\ ~NamesKnownGroup(global_config, FirstRule(global_config, k))
          /\ IsAccepted(requests[r].response) =>
                \A n \in DOMAIN GroupsOf(r).vals :
                    GroupsOf(r).vals[n] = global_config.server_groups.vals[n]
    /\ \A k \in ProbeKeys :
        HasRule(global_config, k) =>
            LET rule == FirstRule(global_config, k)
                m == get_servers_for_key(global_config, k)
            IN /\ IsDeclaredOrder(m.keys, rule.server_groups, global_config.server_groups)
               /\ DOMAIN m.vals = { m.keys[i] : i \in 1..Len(m.keys) }
               /\ \A n \in DOMAIN m.vals : m.vals[n] = global_config.server_groups.vals[n]
               /\ ~NamesKnownGroup(global_config, rule) => m = EmptyDict

\* a request was refused because its rule names only unknown groups, and an
\* accepted request's rule names an unknown group that its map leaves out
C9_Witness ==
    /\ \E r \in 1..Len(requests) : IsError(requests[r].response, 404, "no_server_groups")
    /\ \E r \in 1..Len(requests) :
          /\ IsAccepted(requests[r].response)
          /\ \E i \in 1..Len(TaskOf(r).playbook_config.server_groups) :
                TaskOf(r).playbook_config.server_groups[i]
                    \notin DOMAIN global_config.server_groups.vals
          /\ Len(GroupsOf(r).keys) = 2

\* -------------------------------------------------------------------- C10

\* C10: in the inventory built for a server group, every host entry has the
\* port attribute iff ssh_port # 22, the user attribute iff ssh_user # "", the
\* private-key attribute iff ssh_key_path # "", the password attribute iff
\* ssh_pass # "", each equal to its source field when present, and no other
\* attribute; each condition reads its own field only.
C10_InventoryAttributes ==
    inv_out # None =>
        \A h \in DOMAIN inv_out.ssl_servers.hosts.vals :
            LET hc == inv_out.ssl_servers.hosts.vals[h] IN
            /\ "ansible_port" \in DOMAIN hc <=> sg_in.ssh_port # 22
            /\ "ansible_port" \in DOMAIN hc => hc["ansible_port"] = sg_in.ssh_port
            /\ "ansible_user" \in DOMAIN hc <=> sg_in.ssh_user # ""
            /\ "ansible_user" \in DOMAIN hc => hc["ansible_user"] = sg_in.ssh_user
            /\ "ansible_ssh_private_key_file" \in DOMAIN hc <=> sg_in.ssh_key_path # ""
            /\ "ansible_ssh_private_key_file" \in DOMAIN hc =>
                  hc["ansible_ssh_private_key_file"] = sg_in.ssh_key_path
            /\ "ansible_ssh_pass" \in DOMAIN hc <=> sg_in.ssh_pass # ""
            /\ "ansible_ssh_pass" \in DOMAIN hc => hc["ansible_ssh_pass"] = sg_in.ssh_pass
            /\ DOMAIN hc \subseteq {"ansible_port", "ansible_user",
                                    "ansible_ssh_private_key_file", "ansible_ssh_pass"}

\* an inventory with a host whose entry has the key file and a port but
\* neither user nor password
C10_Witness ==
    /\ inv_out # None
    /\ \E h \in DOMAIN inv_out.ssl_servers.hosts.vals :
          DOMAIN inv_out.ssl_servers.hosts.vals[h]
              = {"ansible_ssh_private_key_file", "ansible_port"}
    /\ sg_in.ssh_port = 21

\* -------------------------------------------------------------------- C11

\* the inventory has the one host group ssl_servers, and nothing else
SingleHostGroup(inventory) ==
    /\ DOMAIN inventory = {"ssl_servers"}
    /\ DOMAIN inventory.ssl_servers = {"hosts"}

\* C11, as stated: one host group, with one entry per element of the hosts
\* list, in the order of the list; as many entries as the list is long.
C11_AsStated ==
    inv_out # None =>
        /\ SingleHostGroup(inv_out)
        /\ inv_out.ssl_servers.hosts.keys = sg_in.hosts
        /\ Len(inv_out.ssl_servers.hosts.keys) = Len(sg_in.hosts)

\* C11, amended: one host group, with one entry per distinct host string of
\* the hosts list, in the order of first appearance; the number of entries is
\* the number of distinct host strings, which is the length of the list when
\* no host is listed twice.
C11_InventoryHosts ==
    inv_out # None =>
        LET hosts == inv_out.ssl_servers.hosts
            listed == { sg_in.hosts[i] : i \in 1..Len(sg_in.hosts) }
        IN /\ SingleHostGroup(inv_out)
           /\ { hosts.keys[i] : i \in 1..Len(hosts.keys) } = listed
           /\ DOMAIN hosts.vals = listed
           /\ Len(hosts.keys) = Cardinality(listed)
           /\ \A i, j \in 1..Len(hosts.keys) : i < j =>
                 FirstPos(sg_in.hosts, hosts.keys[i]) < FirstPos(sg_in.hosts, hosts.keys[j])
           /\ Cardinality(listed) = Len(sg_in.hosts) => hosts.keys = sg_in.hosts

\* the inventory of a group whose two hosts are listed against their
\* alphabetical order
C11_Witness ==
    /\ inv_out # None
    /\ sg_in.hosts = <<"h2", "h1">>
    /\ inv_out.ssl_servers.hosts.keys = <<"h2", "h1">>

\* -------------------------------------------------------------------- C12

\* the field name begins with var_
HasVarPrefix(f) ==
    Len(f) >= 4 /\ f[1] = "v" /\ f[2] = "a" /\ f[3] = "r" /\ f[4] = "_"

\* the field name without its first four characters
WithoutPrefix(f) == [k \in 1..(Len(f) - 4) |-> f[k + 4]]

DeclaredFields ==
    { <<"k", "e", "y">>,
      <<"s", "e", "r", "v", "e", "r", "_", "g", "r", "o", "u", "p", "s">>,
      <<"p", "l", "a", "y", "b", "o", "o", "k", "_", "f", "i", "l", "e">> }

\* C12: the extra variables of every runner invocation are the rule's fields
\* whose name begins with var_, keyed by the name without that prefix, with
\* the configured value; no declared field and no extra field without the
\* prefix appears; all invocations of one request carry the same map.
C12_ExtraVars ==
    \A r \in 1..Len(sync) : \A i \in 1..Len(sync[r].calls) :
        LET ev == sync[r].calls[i].extravars
            extra == TaskOf(r).playbook_config.extra
            prefixed == { f \in DOMAIN extra.vals : HasVarPrefix(f) }
        IN /\ DOMAIN ev.vals = { WithoutPrefix(f) : f \in prefixed }
           /\ { ev.keys[k] : k \in 1..Len(ev.keys) } = DOMAIN ev.vals
           /\ Len(ev.keys) = Cardinality(prefixed)
           /\ \A f \in prefixed : ev.vals[WithoutPrefix(f)] = extra.vals[f]
           /\ \A f \in DeclaredFields \cup (DOMAIN extra.vals \ prefixed) :
                 f \notin DOMAIN ev.vals
           /\ \A j \in 1..Len(sync[r].calls) : sync[r].calls[j].extravars = ev

\* two invocations of one request whose rule has prefixed fields, the bare
\* prefix among them, and fields without the prefix
C12_Witness ==
    \E r \in 1..Len(sync) :
        /\ Len(sync[r].calls) = 2
        /\ sync[r].calls[2].status = "successful"
        /\ DOMAIN sync[r].calls[2].extravars.vals = { <<"c">>, <<>> }
        /\ <<"o", "t", "h", "e", "r">> \in DOMAIN TaskOf(r).playbook_config.extra.vals

\* -------------------------------------------------------------------- C13

\* C13: for a runner result whose status is not 'successful' (a status
\* attribute may even be missing), whatever rc, stdout and events look like
\* and whatever reading them raises, _sync_to_server_group returns False and
\* raises nothing.
C13_FailureStaysFailure ==
    (ret_out # None /\ ~res_in.raised /\ res_in.status # "successful") =>
        /\ ret_out.raises = FALSE
        /\ ret_out.value = FALSE

\* a failed result without rc, whose stdout cannot be read and whose events
\* cannot be iterated, was reported as a failure
C13_Witness ==
    /\ ret_out # None
    /\ res_in.status = "failed"
    /\ res_in.rc = "missing"
    /\ res_in.stdout = "read_raises"
    /\ res_in.events = "not_iterable"
    /\ ret_out.value = FALSE

\* -------------------------------------------------------------------- C14

\* C14: a POST to the webhook path that the application answers while the
\* configuration or the orchestrator is not set is answered with 503, whatever
\* the request holds.
C14_AsStated ==
    (app_config = None \/ ssl_syncer = None) =>
        \A r \in 1..Len(requests) :
            /\ requests[r].response.status_code = 503
            /\ requests[r].background_tasks = <<>>

\* -------------------------------------------------------------------- C15

\* the rule and the groups a scheduled sync borrowed are those of cfg
BorrowsFrom(task, cfg) ==
    /\ \E i \in 1..Len(cfg.playbook_mappings) :
          cfg.playbook_mappings[i] = task.playbook_config
    /\ \A i \in 1..Len(task.server_groups.keys) :
          LET g == task.server_groups.keys[i] IN
          /\ g \in DOMAIN cfg.server_groups.vals
          /\ task.server_groups.vals[g] = cfg.server_groups.vals[g]

\* C15: no step of the service (a request, with its rule lookup and group
\* resolution, the start of a sync, a runner invocation with its inventory and
\* variables, its return or failure, a change of the playbook directory)
\* changes the rule list, the group registry or any field of a rule or group;
\* the configuration the handlers read stays the one loaded at startup, and
\* what each sync borrowed stays equal to it.
C15_ConfigFrozen ==
    [][/\ global_config' = global_config
       /\ app_config # None => app_config' = app_config
       /\ ssl_syncer # None => ssl_syncer' = ssl_syncer
       /\ app_config' # None => app_config' = global_config'
       /\ \A r \in 1..Len(requests') :
             requests'[r].background_tasks # <<>> =>
                BorrowsFrom(requests'[r].background_tasks[1], global_config')]_vars

\* a sync ended in success and another in failure after a runner invocation,
\* and the configuration read by the handlers is the one loaded
C15_Witness ==
    /\ app_config = global_config
    /\ \E r \in 1..Len(requests) :
          sync[r].pc = "done" /\ sync[r].success /\ sync[r].calls # <<>>
    /\ \E r \in 1..Len(requests) :
          sync[r].pc = "done" /\ ~sync[r].success /\ sync[r].calls # <<>>

\* -------------------------------------------------------------------- C16

\* one step of the sync of one request, from a to b, along the line
\* not started -> playbook validated -> group after group -> done
LinearStep(a, b, groups) ==
    \/ a = b
    \/ /\ a.pc = "not_started"
       /\ b.pc \in {"iterating", "done"}
       /\ b.calls = <<>>
       /\ b.pc = "iterating" => b.playbook_found /\ b.idx = 1
    \/ /\ a.pc = "iterating"
       /\ b.pc = "running"
       /\ b.idx = a.idx
       /\ Len(b.calls) = Len(a.calls) + 1
       /\ b.calls[Len(b.calls)].group_name = groups[a.idx]
       /\ \A i \in 1..Len(a.calls) : b.calls[i] = a.calls[i]
    \/ /\ a.pc = "running"
       /\ b.pc \in {"iterating", "done"}
       /\ Len(b.calls) = Len(a.calls)
       /\ \A i \in 1..(Len(a.calls) - 1) : b.calls[i] = a.calls[i]
       /\ b.calls[Len(b.calls)].group_name = a.calls[Len(a.calls)].group_name
       /\ b.pc = "iterating" => b.idx = a.idx + 1

\* what holds of a sync wherever it stands on that line
LinearState(s, groups) ==
    /\ s.calls # <<>> => s.playbook_found
    /\ s.pc \in {"iterating", "running"} => s.playbook_found
    /\ Len(s.calls) <= Len(groups)
    /\ \A i \in 1..Len(s.calls) : s.calls[i].group_name = groups[i]
    /\ \A i, j \in 1..Len(s.calls) :
          i # j => s.calls[i].group_name # s.calls[j].group_name
    /\ \A i \in 1..Len(s.calls) :
          s.calls[i].status = "running" => (i = Len(s.calls) /\ s.pc = "running")
    /\ s.pc = "done" => s.success \in BOOLEAN

\* C16: every scheduled sync moves along the line not started -> playbook
\* validated -> one invocation per group, in order -> done, and a finished
\* sync never moves again; the runner is invoked only in a sync that found
\* its playbook; no group of a request is invoked twice, whether it failed or
\* succeeded; and with the task scheduled and every invocation giving control
\* back, each sync that was scheduled reaches done with a boolean result.
C16_LinearSync ==
    /\ [][\A r \in 1..Len(requests) :
            /\ requests[r].background_tasks # <<>> =>
                  /\ LinearStep(sync[r], sync'[r], GroupsOf(r).keys)
                  /\ LinearState(sync'[r], GroupsOf(r).keys)
            /\ sync[r].pc \in {"done", "no_task"} => sync'[r] = sync[r]]_vars
    /\ \A r \in 1..MaxRequests :
          (r <= Len(requests) /\ sync[r].pc = "not_started")
              ~> (r <= Len(requests) /\ sync[r].pc = "done"
                                      /\ sync[r].success \in BOOLEAN)

\* one sync stopped at its second group when the runner raised, another ended
\* without an invocation because its playbook was not there
C16_Witness ==
    /\ \E r \in 1..Len(requests) :
          /\ sync[r].pc = "done"
          /\ Len(sync[r].calls) = 2
          /\ sync[r].calls[1].status = "successful"
          /\ sync[r].calls[2].status = "raised"
          /\ Len(GroupsOf(r).keys) = 3
    /\ \E r \in 1..Len(requests) :
          /\ sync[r].pc = "done"
          /\ ~sync[r].playbook_found
          /\ requests[r].background_tasks # <<>>

\* -------------------------------------------------------------------- C17

\* the runner invocations of request r that have not come back
InFlight(r) ==
    { i \in 1..Len(sync[r].calls) : sync[r].calls[i].status = "running" }

\* C17: every accepted request has a sync of its own, whatever other requests
\* were accepted before it and for whichever key; a request has at most one
\* runner invocation in flight, the last one it made; and a sync that has not
\* finished can always take its next step, whatever the syncs of the other
\* requests are doing.
C17_Concurrency ==
    /\ Len(sync) = Len(requests)
    /\ \A r \in 1..Len(requests) :
          /\ IsAccepted(requests[r].response) =>
                /\ sync[r].pc # "no_task"
                /\ Len(requests[r].background_tasks) = 1
                /\ TaskOf(r).key = requests[r].response.body.key
          /\ Cardinality(InFlight(r)) <= 1
          /\ InFlight(r) # {} <=> sync[r].pc = "running"
          /\ InFlight(r) \subseteq {Len(sync[r].calls)}
          /\ sync[r].pc \in {"not_started", "iterating", "running"} =>
                ENABLED SyncSteps(r)

\* two requests for the same key were both accepted, and the runner is at work
\* for both at the same time, on the same server group
C17_Witness ==
    /\ Len(requests) = 2
    /\ IsAccepted(requests[1].response)
    /\ IsAccepted(requests[2].response)
    /\ requests[1].response.body.key = requests[2].response.body.key
    /\ sync[1].pc = "running"
    /\ sync[2].pc = "running"
    /\ sync[1].calls[Len(sync[1].calls)].group_name
         = sync[2].calls[Len(sync[2].calls)].group_name

\* -------------------------------------------------------------------- C18

\* C18: a runner invocation that raised is the last invocation of its
\* request; the sync is done with the result False, at the group that
\* raised, as after a failed result; and the service goes on: further
\* requests are handled and the syncs of other requests take their steps.
C18_RaiseIsFailure ==
    \A r \in 1..Len(requests) : \A i \in 1..Len(sync[r].calls) :
        sync[r].calls[i].status = "raised" =>
            /\ i = Len(sync[r].calls)
            /\ sync[r] = SyncState("done", TRUE, i, FALSE, sync[r].calls)
            /\ Len(requests) < MaxRequests =>
                  \A name \in Names : ENABLED Webhook(name)
            /\ \A other \in 1..Len(requests) :
                  sync[other].pc \in {"not_started", "iterating", "running"} =>
                      ENABLED SyncSteps(other)

\* the runner raised on the first of several groups of a request, and the
\* sync of the next request went through all of its groups
C18_Witness ==
    /\ Len(requests) = 2
    /\ IsAccepted(requests[1].response)
    /\ Len(GroupsOf(1).keys) > 1
    /\ Len(sync[1].calls) = 1
    /\ sync[1].calls[1].status = "raised"
    /\ sync[2].pc = "done"
    /\ sync[2].success
    /\ sync[2].calls # <<>>

\* -------------------------------------------------------------------- C19

\* the field of a server group an inventory attribute is taken from
FieldOfAttribute(G, attribute) ==
    CASE attribute = "ansible_port" -> G.ssh_port
      [] attribute = "ansible_user" -> G.ssh_user
      [] attribute = "ansible_ssh_private_key_file" -> G.ssh_key_path
      [] attribute = "ansible_ssh_pass" -> G.ssh_pass
      [] OTHER -> None

\* C19: every runner invocation, of every request and whatever else is in
\* flight, carries an inventory whose hosts are exactly the hosts of the
\* group it is made for, each with attributes whose values are that group's
\* own fields, and the key override is that group's ssh_key_path.
C19_OwnGroupOnly ==
    \A r \in 1..Len(requests) : \A i \in 1..Len(sync[r].calls) :
        LET call == sync[r].calls[i]
            G == global_config.server_groups.vals[call.group_name]
            hosts == call.inventory.ssl_servers.hosts
        IN /\ call.group_name \in DOMAIN global_config.server_groups.vals
           /\ SingleHostGroup(call.inventory)
           /\ DOMAIN hosts.vals = { G.hosts[h] : h \in 1..Len(G.hosts) }
           /\ { hosts.keys[h] : h \in 1..Len(hosts.keys) } = DOMAIN hosts.vals
           /\ \A host \in DOMAIN hosts.vals :
                 \A attribute \in DOMAIN hosts.vals[host] :
                    hosts.vals[host][attribute] = FieldOfAttribute(G, attribute)
           /\ call.ssh_key = G.ssh_key_path

\* two requests are inside the runner at the same time for different groups,
\* one with the key and port of db, the other with the password of lb
C19_Witness ==
    \E r1, r2 \in 1..Len(requests) :
        /\ sync[r1].pc = "running"
        /\ sync[r2].pc = "running"
        /\ LET c1 == sync[r1].calls[Len(sync[r1].calls)]
               c2 == sync[r2].calls[Len(sync[r2].calls)]
           IN /\ c1.group_name = "db"
              /\ c1.ssh_key = "/keys/db"
              /\ c1.inventory.ssl_servers.hosts.vals["h3"]["ansible_port"] = 2222
              /\ c2.group_name = "lb"
              /\ c2.ssh_key = ""
              /\ c2.inventory.ssl_servers.hosts.vals["h1"]["ansible_ssh_pass"] = "secret"

\* -------------------------------------------------------------------- C20

\* C20: the server_groups list of an accepted response is, in order, the list
\* of names of the group map handed to the scheduled sync, and is not empty;
\* playbook_file is the file name of the rule handed to it; the runner
\* invocations of the sync follow that list from its start, each with that
\* playbook, and a sync that ends in success has gone through the whole list.
C20_ResponseMatchesSync ==
    \A r \in 1..Len(requests) :
        IsAccepted(requests[r].response) =>
            LET body == requests[r].response.body
                calls == sync[r].calls
            IN /\ requests[r].background_tasks # <<>>
               /\ body.server_groups = GroupsOf(r).keys
               /\ body.server_groups # <<>>
               /\ body.playbook_file = TaskOf(r).playbook_config.playbook_file
               /\ Len(calls) <= Len(body.server_groups)
               /\ \A i \in 1..Len(calls) :
                     /\ calls[i].group_name = body.server_groups[i]
                     /\ calls[i].playbook = body.playbook_file
               /\ (sync[r].pc = "done" /\ sync[r].success) =>
                     Len(calls) = Len(body.server_groups)

\* a rule that declares web, ghost, db, web was answered with web, db, and its
\* sync called the runner for web and then for db and ended in success
C20_Witness ==
    \E r \in 1..Len(requests) :
        /\ IsAccepted(requests[r].response)
        /\ TaskOf(r).playbook_config.server_groups = <<"web", "ghost", "db", "web">>
        /\ requests[r].response.body.server_groups = <<"web", "db">>
        /\ requests[r].response.body.playbook_file = "nginx.yml"
        /\ sync[r].pc = "done"
        /\ sync[r].success
        /\ Len(sync[r].calls) = 2
        /\ sync[r].calls[1].group_name = "web"
        /\ sync[r].calls[2].group_name = "db"

====
